---- MODULE Spec2Model ----
(***************************************************************************)
(* Model of the telegram surface of micromanager-agent:                    *)
(*   - TelegramChatPanel   (chat panel: message list, submit, realtime     *)
(*                          merge, history load)                           *)
(*   - POST /api/telegram/chat   (route.ts: authenticate, validate,        *)
(*                          persist, run workflow, persist, respond)       *)
(*   - TelegramWorkPlanPanel (workplan list load, selection, role drafts)  *)
(* Strings are TLA+ strings; a JavaScript undefined/null is NoValue.       *)
(* Instants are integers read from the clock `now`.                        *)
(***************************************************************************)
EXTENDS Integers, Sequences, FiniteSets, TLC

VARIABLES
    \* ---- TelegramChatPanel state (useState hooks) and handler positions
    messages,       \* StoredMessage[]
    input,          \* textarea text
    isLoading,      \* a chat request is in flight
    error,          \* send-error text or NoValue
    now,            \* the browser clock (Date.now())
    historyPc,      \* loadMessages: "pending" | "done"
    submitPc,       \* handleSubmit: "idle" | "awaitChat"
    userMessage,    \* the optimistic entry of the running handleSubmit
    toolCallHistory,\* the tool calls shown by the status ticker
    polls,          \* workflow-run fetches in flight, by the isLoading their
                    \* effect run captured
    pollTimer,      \* the 2 s interval of the polling effect is installed
    retryTimers,    \* pending 100 ms timeouts of retryLastMessage
    chatInFlight,   \* unanswered fetches of /api/telegram/chat
    \* ---- POST /api/telegram/chat: one request being handled
    rpc,            \* position inside POST
    reqFrom,        \* "none" | "direct" | "client"
    reqHeader,      \* the authorization header of the request
    reqBody,        \* the request body
    isValid,        \* local variable isValid of POST
    bodyMessage,    \* destructured message
    bodyUserId,     \* destructured userId
    workflowResult, \* value returned by runWorkflow
    store,          \* messages persisted by insertMessage, in call order
    calls,          \* collaborators called by the current request, in order
    resp,           \* response of the current request
    \* ---- TelegramWorkPlanPanel state and load effect
    workplans,
    loadingList,
    regenerating,
    selectedId,
    wpError,
    roleDrafts,
    cancelled,
    loadPc,
    \* ---- handleRegenerate: what the running call captured when triggered
    regenId,        \* selected.event.id
    regenDraft      \* selectedRoleDraft

tickerVars == <<userMessage, toolCallHistory, polls, pollTimer, retryTimers,
                chatInFlight>>
chatVars  == <<messages, input, isLoading, error, now, historyPc, submitPc,
               tickerVars>>
routeVars == <<rpc, reqFrom, reqHeader, reqBody, isValid, bodyMessage,
               bodyUserId, workflowResult, store, calls, resp>>
regenVars == <<regenId, regenDraft>>
wpVars    == <<workplans, loadingList, regenerating, selectedId, wpError,
               roleDrafts, cancelled, loadPc, regenVars>>
vars      == <<chatVars, routeVars, wpVars>>

\* ------------------------------------------------------------------------
\* Bounds
MaxTime  == 1      \* the clock runs over 0..MaxTime
MaxMsgs  == 2      \* longest message list explored
MaxBatch == 2      \* longest realtime batch explored
MaxStore == 2      \* most persisted messages explored
MaxPolls == 3      \* most workflow-run fetches in flight
MaxRetry == 1      \* most retry timeouts pending

\* longest message list explored: a realtime merge fills it up to MaxMsgs,
\* a submit and its reply add two more
MaxList  == MaxMsgs + 2

\* JavaScript undefined / null
NoValue == "<none>"
\* a ChatMessage without createdAt
NoTime  == -1

\* ------------------------------------------------------------------------
\* Text helpers

\* String.prototype.trim, on the blank character
RECURSIVE Trim(_)
Trim(s) ==
    IF Len(s) = 0 THEN s
    ELSE IF SubSeq(s, 1, 1) = " " THEN Trim(SubSeq(s, 2, Len(s)))
    ELSE IF SubSeq(s, Len(s), Len(s)) = " " THEN Trim(SubSeq(s, 1, Len(s) - 1))
    ELSE s

\* JavaScript truthiness of an optional string
Truthy(s) == s # NoValue /\ s # ""

\* ------------------------------------------------------------------------
\* TelegramChatPanel: message reconciliation

\* Array.prototype.sort with the comparator a.createdAt - b.createdAt:
\* a stable sort, ascending by creation time
RECURSIVE InsertByCreatedAt(_, _)
InsertByCreatedAt(sorted, m) ==
    IF Len(sorted) = 0 THEN <<m>>
    ELSE IF sorted[Len(sorted)].createdAt <= m.createdAt THEN Append(sorted, m)
    ELSE Append(InsertByCreatedAt(SubSeq(sorted, 1, Len(sorted) - 1), m),
                sorted[Len(sorted)])

RECURSIVE SortByCreatedAt(_)
SortByCreatedAt(list) ==
    IF Len(list) = 0 THEN <<>>
    ELSE InsertByCreatedAt(SortByCreatedAt(SubSeq(list, 1, Len(list) - 1)),
                           list[Len(list)])

\* the StoredMessage built from one incoming ChatMessage
MapIncoming(message, t) ==
    LET createdDate == IF message.createdAt = NoTime THEN t
                       ELSE message.createdAt
    IN  [id        |-> message.id,
         role      |-> message.role,
         content   |-> message.content,
         createdAt |-> createdDate,
         source    |-> IF message.role \in {"assistant", "tool"}
                       THEN "realtime-agent" ELSE "telegram-user",
         metaError |-> FALSE]

\* prev.map(msg => msg.id).filter(Boolean)
ExistingIds(prev) == {prev[i].id : i \in DOMAIN prev} \ {"", NoValue}

KeepIncomingAll(msg, existingIds) == TRUE
\* mapped.filter(msg => !msg.id || !existingIds.has(msg.id))
KeepIncoming(msg, existingIds) == ~Truthy(msg.id) \/ msg.id \notin existingIds

Deduped(prev, incoming, t) ==
    LET existingIds == ExistingIds(prev)
        mapped == [i \in DOMAIN incoming |-> MapIncoming(incoming[i], t)]
    IN  SelectSeq(mapped, LAMBDA msg : KeepIncoming(msg, existingIds))

\* the state updater of handleRealtimeMessages
MergeRealtime(prev, incoming, t) ==
    IF Len(incoming) = 0 THEN prev
    ELSE LET deduped == Deduped(prev, incoming, t)
         IN  IF Len(deduped) = 0 THEN prev
             ELSE SortByCreatedAt(prev \o deduped)

\* ------------------------------------------------------------------------
\* Inputs of the chat panel

\* realtime messages: one without identity and without creation time, one
\* with an identity and a creation time that may lie ahead of the browser
\* clock, one spoken by the user
ChatMessages ==
    {[id |-> "",  role |-> "assistant", content |-> "rt", createdAt |-> NoTime],
     [id |-> "a", role |-> "assistant", content |-> "rt", createdAt |-> MaxTime],
     [id |-> "b", role |-> "user",      content |-> "rt", createdAt |-> NoTime]}
Batches ==
    UNION {[1..n -> ChatMessages] : n \in 1..MaxBatch}

Inputs == {"", " ", " hi "}

HistoryMessage ==
    [id |-> "h1", role |-> "assistant", content |-> "old", createdAt |-> 0,
     source |-> "micromanager", metaError |-> FALSE]
HistoryResults == {<<>>, <<HistoryMessage>>}

\* the token the panel reads from localStorage ("null" when there is none)
ClientCreds == {"null", "tok"}
UserIdProp  == "u1"

\* ------------------------------------------------------------------------
\* POST /api/telegram/chat

\* req.headers.get("authorization")?.replace("Bearer ", "")
\* (a header is a credential with or without the "Bearer " prefix, or absent)
TokenOf(header) == IF header.present THEN header.cred ELSE NoValue

Creds    == {"", "srv", "usr", "bad"}
NoHeader == [present |-> FALSE, bearer |-> FALSE, cred |-> ""]
Headers  == {NoHeader} \cup [present : {TRUE}, bearer : BOOLEAN, cred : Creds]

\* a body is malformed (req.json() or the destructuring throws) or an object
MalformedBody == [kind |-> "malformed", message |-> NoValue, userId |-> NoValue]
ObjectBodies  == [kind : {"object"}, message : {NoValue, "", "hi"},
                  userId : {NoValue, "", "u1"}]
Bodies == {MalformedBody} \cup ObjectBodies

\* what runWorkflow can do: throw, return a result without output_text, or
\* return output_text with an error field that is absent, true or false
NoResult == [kind |-> "none", output_text |-> NoValue, error |-> "absent"]
WorkflowResults ==
    [kind : {"throws", "malformed"}, output_text : {NoValue}, error : {"absent"}]
    \cup [kind : {"ok"}, output_text : {"hello"},
          error : {"absent", "true", "false"}]

NoResp == [status |-> 0, response |-> NoValue, error |-> NoValue]
ErrorResp(status, text) ==
    [status |-> status, response |-> NoValue, error |-> text]

Call(fn, out) == [fn |-> fn, out |-> out]

TokenMissingNever(token) == FALSE
\* line 13: if (!token)
TokenMissing(token) == ~Truthy(token)

ServerAcceptsUnlessThrows(out) == out # "throws"
\* lines 21-24: the server verifier accepts only by returning true
ServerAccepts(out) == out = "true"

PayloadMissingMessageOnly(message, userId) == ~Truthy(message)
\* line 45: if (!message || !userId)
PayloadMissing(message, userId) == ~Truthy(message) \/ ~Truthy(userId)

\* lines 12-15: read the token; no token is a 401 without any verification
RouteStart ==
    /\ rpc = "received"
    /\ IF TokenMissing(TokenOf(reqHeader))
       THEN /\ resp' = ErrorResp(401, "Unauthorized")
            /\ rpc' = "done"
       ELSE /\ rpc' = "verifyServer"
            /\ resp' = resp
    /\ isValid' = FALSE
    /\ UNCHANGED <<reqFrom, reqHeader, reqBody, bodyMessage, bodyUserId,
                   workflowResult, store, calls>>

\* lines 20-25: verifyTelegramServerToken returns true, returns false
\* (the handler throws itself) or throws
VerifyServer(out) ==
    /\ rpc = "verifyServer"
    /\ calls' = Append(calls, Call("verifyTelegramServerToken", out))
    /\ IF ServerAccepts(out)
       THEN /\ isValid' = TRUE
            /\ rpc' = "afterAuth"
       ELSE /\ isValid' = FALSE
            /\ rpc' = "verifyJwt"
    /\ UNCHANGED <<reqFrom, reqHeader, reqBody, bodyMessage, bodyUserId,
                   workflowResult, store, resp>>

\* lines 28-36: jwtVerify resolves or throws
VerifyJwt(out) ==
    /\ rpc = "verifyJwt"
    /\ calls' = Append(calls, Call("jwtVerify", out))
    /\ IF out = "ok"
       THEN /\ isValid' = TRUE
            /\ rpc' = "afterAuth"
            /\ resp' = resp
       ELSE /\ isValid' = isValid
            /\ resp' = ErrorResp(401, "Invalid token")
            /\ rpc' = "done"
    /\ UNCHANGED <<reqFrom, reqHeader, reqBody, bodyMessage, bodyUserId,
                   workflowResult, store>>

\* lines 39-50: the isValid check, req.json() and the payload validation
ParseBody ==
    /\ rpc = "afterAuth"
    /\ IF ~isValid
       THEN /\ resp' = ErrorResp(401, "Invalid token")
            /\ rpc' = "done"
            /\ UNCHANGED <<bodyMessage, bodyUserId>>
       ELSE IF reqBody.kind = "malformed"
       THEN /\ resp' = ErrorResp(500, "Failed to process message")
            /\ rpc' = "done"
            /\ UNCHANGED <<bodyMessage, bodyUserId>>
       ELSE /\ bodyMessage' = reqBody.message
            /\ bodyUserId' = reqBody.userId
            /\ IF PayloadMissing(reqBody.message, reqBody.userId)
               THEN /\ resp' = ErrorResp(400, "Message and userId are required")
                    /\ rpc' = "done"
               ELSE /\ resp' = resp
                    /\ rpc' = "getUser"
    /\ UNCHANGED <<reqFrom, reqHeader, reqBody, isValid, workflowResult,
                   store, calls>>

\* line 52: getUserById resolves (a user or nothing) or throws
GetUser(out) ==
    /\ rpc = "getUser"
    /\ calls' = Append(calls, Call("getUserById", out))
    /\ IF out = "throws"
       THEN /\ resp' = ErrorResp(500, "Failed to process message")
            /\ rpc' = "done"
       ELSE /\ resp' = resp
            /\ rpc' = "insertUser"
    /\ UNCHANGED <<reqFrom, reqHeader, reqBody, isValid, bodyMessage,
                   bodyUserId, workflowResult, store>>

UserRecord ==
    [userId |-> bodyUserId, role |-> "user", content |-> bodyMessage,
     type |-> "text", source |-> "telegram-user", metaError |-> FALSE]

\* lines 56-64: insertMessage of the user message resolves or throws
InsertUser(out) ==
    /\ rpc = "insertUser"
    /\ calls' = Append(calls, Call("insertMessage", out))
    /\ IF out = "throws"
       THEN /\ resp' = ErrorResp(500, "Failed to process message")
            /\ rpc' = "done"
            /\ store' = store
       ELSE /\ store' = Append(store, UserRecord)
            /\ resp' = resp
            /\ rpc' = "runWorkflow"
    /\ UNCHANGED <<reqFrom, reqHeader, reqBody, isValid, bodyMessage,
                   bodyUserId, workflowResult>>

RunWorkflowRollback(result) ==
    /\ rpc = "runWorkflow"
    /\ calls' = Append(calls, Call("runWorkflow", result.kind))
    /\ IF result.kind # "ok"
       THEN /\ resp' = ErrorResp(500, "Failed to process message")
            /\ rpc' = "done"
            /\ workflowResult' = workflowResult
            /\ store' = SubSeq(store, 1, Len(store) - 1)
       ELSE /\ workflowResult' = result
            /\ resp' = resp
            /\ rpc' = "insertAssistant"
            /\ store' = store
    /\ UNCHANGED <<reqFrom, reqHeader, reqBody, isValid, bodyMessage,
                   bodyUserId>>

\* lines 72-90: runWorkflow; reading output_text.length of a result without
\* output_text throws like the call itself
RunWorkflow(result) ==
    /\ rpc = "runWorkflow"
    /\ calls' = Append(calls, Call("runWorkflow", result.kind))
    /\ IF result.kind # "ok"
       THEN /\ resp' = ErrorResp(500, "Failed to process message")
            /\ rpc' = "done"
            /\ workflowResult' = workflowResult
       ELSE /\ workflowResult' = result
            /\ resp' = resp
            /\ rpc' = "insertAssistant"
    /\ UNCHANGED <<reqFrom, reqHeader, reqBody, isValid, bodyMessage,
                   bodyUserId, store>>

HasErrorWhenPresent(result) == result.error # "absent"
\* line 80
HasError(result) == result.error = "true"

AssistantRecord ==
    [userId |-> bodyUserId, role |-> "assistant",
     content |-> workflowResult.output_text, type |-> "text",
     source |-> "micromanager", metaError |-> HasError(workflowResult)]

\* lines 93-107: insertMessage of the assistant message, then the response
InsertAssistant(out) ==
    /\ rpc = "insertAssistant"
    /\ calls' = Append(calls, Call("insertMessage", out))
    /\ IF out = "throws"
       THEN /\ resp' = ErrorResp(500, "Failed to process message")
            /\ store' = store
       ELSE /\ store' = Append(store, AssistantRecord)
            /\ resp' = [status   |-> 200,
                        response |-> workflowResult.output_text,
                        error    |-> IF HasError(workflowResult)
                                     THEN "true" ELSE "false"]
    /\ rpc' = "done"
    /\ UNCHANGED <<reqFrom, reqHeader, reqBody, isValid, bodyMessage,
                   bodyUserId, workflowResult>>

\* the handler between its awaits
RouteStep ==
    \/ RouteStart
    \/ \E out \in {"true", "false", "throws"} : VerifyServer(out)
    \/ \E out \in {"ok", "throws"} : VerifyJwt(out)
    \/ ParseBody
    \/ \E out \in {"ok", "throws"} : GetUser(out)
    \/ \E out \in {"ok", "throws"} : InsertUser(out)
    \/ \E result \in WorkflowResults : RunWorkflow(result)
    \/ \E out \in {"ok", "throws"} : InsertAssistant(out)

\* the per-request state of an idle handler
RouteIdle ==
    /\ rpc' = "idle"
    /\ reqFrom' = "none"
    /\ reqHeader' = NoHeader
    /\ reqBody' = MalformedBody
    /\ isValid' = FALSE
    /\ bodyMessage' = NoValue
    /\ bodyUserId' = NoValue
    /\ workflowResult' = NoResult
    /\ calls' = <<>>
    /\ resp' = NoResp

\* a request from any caller
DirectRequest(header, body) ==
    /\ rpc = "idle"
    /\ Len(store) + 2 <= MaxStore
    /\ rpc' = "received"
    /\ reqFrom' = "direct"
    /\ reqHeader' = header
    /\ reqBody' = body
    /\ UNCHANGED <<isValid, bodyMessage, bodyUserId, workflowResult, store,
                   calls, resp>>

\* the caller has its response
DirectDone ==
    /\ rpc = "done"
    /\ reqFrom = "direct"
    /\ RouteIdle
    /\ store' = store

\* ------------------------------------------------------------------------
\* TelegramChatPanel: operations

\* the clock advances
Tick ==
    /\ now < MaxTime
    /\ now' = now + 1
    /\ UNCHANGED <<messages, input, isLoading, error, historyPc, submitPc>>
    /\ UNCHANGED <<tickerVars, routeVars, wpVars>>

\* the textarea's onChange (the textarea is disabled while loading)
SetInput(value) ==
    /\ ~isLoading
    /\ input # value
    /\ input' = value
    /\ UNCHANGED <<messages, isLoading, error, now, historyPc, submitPc>>
    /\ UNCHANGED <<tickerVars, routeVars, wpVars>>

\* handleRealtimeMessages(incoming)
HandleRealtimeMessages(incoming) ==
    /\ Len(messages) + Len(Deduped(messages, incoming, now)) <= MaxMsgs
    /\ messages' = MergeRealtime(messages, incoming, now)
    /\ UNCHANGED <<input, isLoading, error, now, historyPc, submitPc>>
    /\ UNCHANGED <<tickerVars, routeVars, wpVars>>

\* loadMessages: the history fetch resolves with a message list
LoadMessagesOk(result) ==
    /\ historyPc = "pending"
    /\ historyPc' = "done"
    /\ messages' = result
    /\ UNCHANGED <<input, isLoading, error, now, submitPc>>
    /\ UNCHANGED <<tickerVars, routeVars, wpVars>>

\* loadMessages: the history fetch fails or returns a non-success status
LoadMessagesFail ==
    /\ historyPc = "pending"
    /\ historyPc' = "done"
    /\ UNCHANGED <<messages, input, isLoading, error, now, submitPc>>
    /\ UNCHANGED <<tickerVars, routeVars, wpVars>>

\* lines 341-350
UserMessage ==
    [id |-> ToString(now), role |-> "user", content |-> Trim(input),
     createdAt |-> now, source |-> "telegram-user", metaError |-> FALSE]

\* no handleSubmit is running
NoMessage ==
    [id |-> NoValue, role |-> NoValue, content |-> NoValue,
     createdAt |-> NoTime, source |-> NoValue, metaError |-> FALSE]

\* workflow-run fetches in flight
InFlightPolls == polls[TRUE] + polls[FALSE]

\* pollWorkflowRuns() called by an effect run or interval that captured
\* isLoading = loading
PollStarted(loading) == [polls EXCEPT ![loading] = @ + 1]

IntervalWhenAlways(loading) == TRUE
\* lines 313-319: the effect installs the interval only when isLoading
IntervalWhen(loading) == loading

SubmitGuardLoadingOnly == ~isLoading
\* line 339: if (!input.trim() || isLoading) return;
SubmitGuard == Trim(input) # "" /\ ~isLoading

\* handleSubmit from the guard up to the awaited fetch of
\* /api/telegram/chat, and the polling effect run by the change of isLoading
SubmitBody(cred) ==
    /\ Len(messages) + 2 <= MaxList
    /\ Len(store) + 2 <= MaxStore
    /\ InFlightPolls + 2 <= MaxPolls
    /\ userMessage' = UserMessage
    /\ messages' = Append(messages, UserMessage)
    /\ input' = ""
    /\ isLoading' = TRUE
    /\ error' = NoValue
    /\ toolCallHistory' = <<>>
    /\ polls' = PollStarted(TRUE)
    /\ pollTimer' = IntervalWhen(TRUE)
    /\ submitPc' = "awaitChat"
    /\ chatInFlight' = chatInFlight + 1
    /\ rpc' = "received"
    /\ reqFrom' = "client"
    /\ reqHeader' = [present |-> TRUE, bearer |-> TRUE, cred |-> cred]
    /\ reqBody' = [kind |-> "object", message |-> Trim(input),
                   userId |-> UserIdProp]
    /\ UNCHANGED <<now, historyPc>>
    /\ UNCHANGED <<isValid, bodyMessage, bodyUserId, workflowResult, store,
                   calls, resp>>
    /\ UNCHANGED wpVars

\* the form is submitted by the button or the Enter key
HandleSubmit(cred) ==
    /\ SubmitGuard
    /\ SubmitBody(cred)
    /\ UNCHANGED retryTimers

\* for (index = messages.length - 1; ...) if (message.role === wanted)
RECURSIVE LastWithRole(_, _)
LastWithRole(list, wanted) ==
    IF Len(list) = 0 THEN NoMessage
    ELSE IF list[Len(list)].role = wanted THEN list[Len(list)]
    ELSE LastWithRole(SubSeq(list, 1, Len(list) - 1), wanted)

\* lines 183-191: the last assistant message carries metadata.error
HasLastMessageError == LastWithRole(messages, "assistant").metaError

\* retryLastMessage: the ticker's Retry button, shown on hasLastMessageError
\* when the agent row is not animating (lines 879 and 948)
RetryLastMessage ==
    /\ ~isLoading
    /\ HasLastMessageError
    /\ LastWithRole(messages, "user") # NoMessage
    /\ retryTimers < MaxRetry
    /\ input' = LastWithRole(messages, "user").content
    /\ retryTimers' = retryTimers + 1
    /\ UNCHANGED <<messages, isLoading, error, now, historyPc, submitPc,
                   userMessage, toolCallHistory, polls, pollTimer,
                   chatInFlight>>
    /\ UNCHANGED <<routeVars, wpVars>>

\* the timeout of retryLastMessage: formRef.current?.requestSubmit()
RetryTimerFires(cred) ==
    /\ retryTimers > 0
    /\ retryTimers' = retryTimers - 1
    /\ IF SubmitGuard
       THEN SubmitBody(cred)
       ELSE /\ UNCHANGED <<messages, input, isLoading, error, now, historyPc,
                           submitPc, userMessage, toolCallHistory, polls,
                           pollTimer, chatInFlight>>
            /\ UNCHANGED <<routeVars, wpVars>>

AssistantIdPlain(t) == ToString(t)
\* line 396: Date.now().toString() + "-assistant"
AssistantId(t) == ToString(t) \o "-assistant"

\* lines 395-405
AssistantMessage ==
    [id |-> AssistantId(now), role |-> "assistant",
     content |-> resp.response, createdAt |-> now, source |-> "micromanager",
     metaError |-> (resp.error = "true")]

ResponseOkAlways(response) == TRUE
\* line 372: if (!response.ok) throw
ResponseOk(response) == response.status = 200

\* data.tokensUsed of a response body; the route of this repository sends
\* none
TokensUsed(response) ==
    IF "tokensUsed" \in DOMAIN response THEN response.tokensUsed ELSE 0

LoadingAfterSuccessOnly(outcome) == outcome # "ok"
\* lines 438-440: finally { setIsLoading(false) }, whatever the outcome
LoadingAfter(outcome) == FALSE

\* the catch and finally blocks of handleSubmit, and the polling effect run
\* by the change of isLoading
SubmitEnds(outcome) ==
    /\ error' = IF outcome = "ok" THEN error
                ELSE "Failed to send message. Please try again."
    /\ isLoading' = LoadingAfter(outcome)
    /\ submitPc' = "idle"
    /\ userMessage' = NoMessage
    /\ IF isLoading' = isLoading
       THEN UNCHANGED <<polls, pollTimer>>
       ELSE /\ polls' = PollStarted(isLoading')
            /\ pollTimer' = IntervalWhen(isLoading')

\* handleSubmit after the fetch resolved: the assistant reply is appended on a
\* success status and the usage follow-up starts when the body carries
\* tokensUsed; the handler ends otherwise, with the error set on a
\* non-success status
ChatResponse ==
    /\ submitPc = "awaitChat"
    /\ reqFrom = "client"
    /\ rpc = "done"
    /\ chatInFlight' = chatInFlight - 1
    /\ IF ResponseOk(resp)
       THEN /\ messages' = Append(messages, AssistantMessage)
            /\ IF TokensUsed(resp) # 0
               THEN /\ submitPc' = "awaitUsage"
                    /\ UNCHANGED <<error, isLoading, userMessage, polls,
                                   pollTimer>>
               ELSE SubmitEnds("ok")
       ELSE /\ messages' = messages
            /\ SubmitEnds("failed")
    /\ RouteIdle
    /\ store' = store
    /\ UNCHANGED <<input, now, historyPc, toolCallHistory, retryTimers>>
    /\ UNCHANGED wpVars

\* handleSubmit when the fetch itself throws
ChatFetchThrows ==
    /\ submitPc = "awaitChat"
    /\ reqFrom = "client"
    /\ rpc \in {"received", "done"}
    /\ chatInFlight' = chatInFlight - 1
    /\ SubmitEnds("failed")
    /\ RouteIdle
    /\ store' = store
    /\ UNCHANGED <<messages, input, now, historyPc, toolCallHistory,
                   retryTimers>>
    /\ UNCHANGED wpVars

\* lines 411-421: the fetch of /api/user/usage resolved; its status is not
\* looked at
UsageResolves ==
    /\ submitPc = "awaitUsage"
    /\ submitPc' = "awaitProfile"
    /\ UNCHANGED <<messages, input, isLoading, error, now, historyPc,
                   tickerVars>>
    /\ UNCHANGED <<routeVars, wpVars>>

\* the fetch of /api/user/usage threw
UsageThrows ==
    /\ submitPc = "awaitUsage"
    /\ SubmitEnds("failed")
    /\ UNCHANGED <<messages, input, now, historyPc, toolCallHistory,
                   retryTimers, chatInFlight>>
    /\ UNCHANGED <<routeVars, wpVars>>

\* lines 424-433: the fetch of /api/user/profile resolved, with a success
\* status (the profile is refreshed) or without
ProfileResolves ==
    /\ submitPc = "awaitProfile"
    /\ SubmitEnds("ok")
    /\ UNCHANGED <<messages, input, now, historyPc, toolCallHistory,
                   retryTimers, chatInFlight>>
    /\ UNCHANGED <<routeVars, wpVars>>

\* the fetch of /api/user/profile, or the reading of its body, threw
ProfileThrows ==
    /\ submitPc = "awaitProfile"
    /\ SubmitEnds("failed")
    /\ UNCHANGED <<messages, input, now, historyPc, toolCallHistory,
                   retryTimers, chatInFlight>>
    /\ UNCHANGED <<routeVars, wpVars>>

\* what a chat endpoint can answer to the panel: a status, and on success a
\* body with response, error and, from a server that counts tokens,
\* tokensUsed
ChatAnswers ==
    {ErrorResp(500, "Failed to process message")}
    \cup [status : {200}, response : {"hello"}, error : {"false", "true"},
          tokensUsed : {0, 7}]

\* the panel's request answered by the network
NetworkAnswers(answer) ==
    /\ reqFrom = "client"
    /\ rpc = "received"
    /\ rpc' = "done"
    /\ resp' = answer
    /\ UNCHANGED <<reqFrom, reqHeader, reqBody, isValid, bodyMessage,
                   bodyUserId, workflowResult, store, calls>>
    /\ UNCHANGED <<chatVars, wpVars>>

\* ------------------------------------------------------------------------
\* TelegramChatPanel: the workflow-run poll

ToolCall(toolName, createdAt) ==
    [toolName |-> toolName, createdAt |-> createdAt]

\* a run without a toolCalls mapping (or no run at all)
NoRun == [hasToolCalls |-> FALSE, toolCalls |-> <<>>]
\* the run of the request in flight; the mapping lists the later call first
CurrentRun ==
    [hasToolCalls |-> TRUE,
     toolCalls |-> <<ToolCall("search", 1), ToolCall("plan", 0)>>]
\* the run of the request before
PreviousRun ==
    [hasToolCalls |-> TRUE, toolCalls |-> <<ToolCall("old", 0)>>]

\* what GET /api/user/workflow-runs can return
PollData ==
    {[current |-> CurrentRun, previous |-> PreviousRun],
     [current |-> NoRun, previous |-> NoRun]}

\* line 264: isLoading ? data.current : data.previous
WorkflowToDisplay(loading, data) ==
    IF loading THEN data.current ELSE data.previous

ToolCallsArrayUnsorted(run) == run.toolCalls
\* lines 280-299: Object.values(...).map(...) then sort by createdAt
ToolCallsArray(run) == SortByCreatedAt(run.toolCalls)

\* the interval of the polling effect fires
PollTick ==
    /\ pollTimer
    /\ InFlightPolls + 1 + (IF submitPc = "awaitChat" THEN 1 ELSE 0)
          <= MaxPolls
    /\ polls' = PollStarted(TRUE)
    /\ UNCHANGED <<messages, input, isLoading, error, now, historyPc,
                   submitPc, userMessage, toolCallHistory, pollTimer,
                   retryTimers, chatInFlight>>
    /\ UNCHANGED <<routeVars, wpVars>>

\* pollWorkflowRuns after its fetch resolved with a success status; loading
\* is the isLoading of the effect run that created the function
PollResolveOk(loading, data) ==
    /\ polls[loading] > 0
    /\ polls' = [polls EXCEPT ![loading] = @ - 1]
    /\ IF WorkflowToDisplay(loading, data).hasToolCalls
       THEN toolCallHistory' =
               ToolCallsArray(WorkflowToDisplay(loading, data))
       ELSE toolCallHistory' = toolCallHistory
    /\ UNCHANGED <<messages, input, isLoading, error, now, historyPc,
                   submitPc, userMessage, pollTimer, retryTimers,
                   chatInFlight>>
    /\ UNCHANGED <<routeVars, wpVars>>

\* pollWorkflowRuns when its fetch threw or returned a non-success status
PollResolveFail(loading) ==
    /\ polls[loading] > 0
    /\ polls' = [polls EXCEPT ![loading] = @ - 1]
    /\ UNCHANGED <<messages, input, isLoading, error, now, historyPc,
                   submitPc, userMessage, toolCallHistory, pollTimer,
                   retryTimers, chatInFlight>>
    /\ UNCHANGED <<routeVars, wpVars>>

\* the route handling the panel's request
ClientRouteStep ==
    /\ reqFrom = "client"
    /\ RouteStep
    /\ UNCHANGED <<chatVars, wpVars>>

\* ------------------------------------------------------------------------
\* TelegramWorkPlanPanel

Entry(id, role) ==
    [id |-> id, role |-> role, steps |-> <<"step">>, status |-> "ready",
     lastGeneratedAt |-> NoValue, error |-> NoValue]

\* a null element of the fetched array
NullEntry ==
    [id |-> NoValue, role |-> NoValue, steps |-> <<>>, status |-> NoValue,
     lastGeneratedAt |-> NoValue, error |-> NoValue]

\* getMockWorkplans(): the fixed local example set
Mocks == <<Entry("mock-1", " Lead "), Entry("mock-2", NoValue)>>

\* normaliseRole: trim, and an empty result is no role
NormaliseRole(value) ==
    IF value = NoValue THEN NoValue
    ELSE IF Trim(value) = "" THEN NoValue ELSE Trim(value)

\* an entry whose generation failed
ErrEntry(id) ==
    [Entry(id, NoValue) EXCEPT !.status = "error", !.error = "boom"]

FetchedRoles == {NoValue, " dev "}
\* what GET /api/workplan can return in data.workplans
WorkplanLists ==
    {<<>>, <<NullEntry>>, <<ErrEntry("e1")>>}
    \cup {<<Entry("e1", r)>> : r \in FetchedRoles}
    \cup {<<NullEntry, Entry("e2", r)>> : r \in FetchedRoles}
    \cup {<<Entry("e1", r1), Entry("e2", r2)>> :
            r1 \in FetchedRoles, r2 \in FetchedRoles}

RoleInputs == {"", " ", "pm", " pm "}

\* (data.workplans ?? []).filter(Boolean)
Items(list) == SelectSeq(list, LAMBDA item : item.id # NoValue)

\* item.role?.trim() ?? ""
SeedRole(item) == IF item.role = NoValue THEN "" ELSE Trim(item.role)

\* mocks.reduce(...): the drafts of the mock set
MockDrafts ==
    [id \in {Mocks[i].id : i \in DOMAIN Mocks} |->
        SeedRole(CHOOSE item \in {Mocks[i] : i \in DOMAIN Mocks} : item.id = id)]

SeedDraftsLatest(prev, items) ==
    [id \in DOMAIN prev \cup {items[i].id : i \in DOMAIN items} |->
        IF \E i \in DOMAIN items : items[i].id = id
        THEN SeedRole(items[CHOOSE i \in DOMAIN items : items[i].id = id])
        ELSE prev[id]]
\* lines 214-222: seed the drafts of identities not yet in the mapping
SeedDrafts(prev, items) ==
    [id \in DOMAIN prev \cup {items[i].id : i \in DOMAIN items} |->
        IF id \in DOMAIN prev THEN prev[id]
        ELSE LET first == CHOOSE i \in DOMAIN items :
                             /\ items[i].id = id
                             /\ \A j \in DOMAIN items : items[j].id = id => i <= j
             IN  SeedRole(items[first])]

FirstIdLast(list) == IF Len(list) = 0 THEN NoValue ELSE list[Len(list)].id
\* mocks[0]?.event.id ?? null
FirstId(list) == IF Len(list) = 0 THEN NoValue ELSE list[1].id

\* lines 199-225 and 240-244: the fetch resolved with a success status
LoadOk(list) ==
    /\ loadPc = "awaitFetch"
    /\ loadPc' = "done"
    /\ IF cancelled
       THEN UNCHANGED <<workplans, roleDrafts, selectedId, loadingList>>
       ELSE /\ loadingList' = FALSE
            /\ IF Len(Items(list)) = 0
               THEN /\ workplans' = Mocks
                    /\ roleDrafts' = MockDrafts
                    /\ selectedId' = FirstId(Mocks)
               ELSE /\ workplans' = Items(list)
                    /\ roleDrafts' = SeedDrafts(roleDrafts, Items(list))
                    /\ selectedId' = FirstId(Items(list))
    /\ UNCHANGED <<regenerating, wpError, cancelled, regenVars>>
    /\ UNCHANGED <<chatVars, routeVars>>

\* lines 226-244: the fetch threw or returned a non-success status
LoadFail ==
    /\ loadPc = "awaitFetch"
    /\ loadPc' = "done"
    /\ IF cancelled
       THEN UNCHANGED <<workplans, roleDrafts, selectedId, loadingList, wpError>>
       ELSE /\ workplans' = Mocks
            /\ roleDrafts' = MockDrafts
            /\ selectedId' = FirstId(Mocks)
            /\ wpError' = "Failed to load upcoming workplans. Showing examples."
            /\ loadingList' = FALSE
    /\ UNCHANGED <<regenerating, cancelled, regenVars>>
    /\ UNCHANGED <<chatVars, routeVars>>

\* the effect's cleanup
Teardown ==
    /\ ~cancelled
    /\ cancelled' = TRUE
    /\ UNCHANGED <<workplans, loadingList, regenerating, selectedId, wpError,
                   roleDrafts, loadPc, regenVars>>
    /\ UNCHANGED <<chatVars, routeVars>>

\* a tab's onClick
SelectTab(i) ==
    /\ ~cancelled
    /\ ~loadingList
    /\ i \in DOMAIN workplans
    /\ selectedId # workplans[i].id
    /\ selectedId' = workplans[i].id
    /\ UNCHANGED <<workplans, loadingList, regenerating, wpError, roleDrafts,
                   cancelled, loadPc, regenVars>>
    /\ UNCHANGED <<chatVars, routeVars>>

\* workplans.find(item => item.event.id === selectedId)
HasSelected == \E i \in DOMAIN workplans : workplans[i].id = selectedId

\* handleRoleChange(selected.event.id, value)
HandleRoleChange(value) ==
    /\ ~cancelled
    /\ HasSelected
    /\ roleDrafts' =
         [id \in DOMAIN roleDrafts \cup {selectedId} |->
            IF id = selectedId THEN value ELSE roleDrafts[id]]
    /\ workplans' =
         [i \in DOMAIN workplans |->
            IF workplans[i].id = selectedId
            THEN [workplans[i] EXCEPT !.role = NormaliseRole(value)]
            ELSE workplans[i]]
    /\ <<roleDrafts', workplans'>> # <<roleDrafts, workplans>>
    /\ UNCHANGED <<loadingList, regenerating, selectedId, wpError, cancelled,
                   loadPc, regenVars>>
    /\ UNCHANGED <<chatVars, routeVars>>

\* selected ? roleDrafts[selected.event.id] ?? "" : ""
SelectedRoleDraft ==
    IF HasSelected /\ selectedId \in DOMAIN roleDrafts
    THEN roleDrafts[selectedId] ELSE ""

\* what POST /api/workplan/regenerate can return: steps, status,
\* lastGeneratedAt and role are each present or absent
RegenData ==
    {[stepsPresent |-> TRUE, steps |-> <<"fresh">>, status |-> "pending",
      lastGeneratedAt |-> "t1", role |-> " srv "],
     [stepsPresent |-> FALSE, steps |-> <<"fresh">>, status |-> NoValue,
      lastGeneratedAt |-> NoValue, role |-> NoValue]}

\* handleRegenerate up to the awaited fetch (the button is disabled while
\* regenerating or loading); selected and selectedRoleDraft are the values
\* of the render in which the handler was created
HandleRegenerate ==
    /\ ~cancelled
    /\ ~regenerating
    /\ ~loadingList
    /\ HasSelected
    /\ regenerating' = TRUE
    /\ wpError' = NoValue
    /\ regenId' = selectedId
    /\ regenDraft' = SelectedRoleDraft
    /\ UNCHANGED <<workplans, loadingList, selectedId, roleDrafts, cancelled,
                   loadPc>>
    /\ UNCHANGED <<chatVars, routeVars>>

\* data.role ?? ""
RoleOrEmpty(data) == IF data.role = NoValue THEN "" ELSE data.role

\* lines 330-336: the draft written back after a regeneration
RegeneratedDraft(draft, data) ==
    IF Len(Trim(draft)) > 0 THEN Trim(draft) ELSE RoleOrEmpty(data)

\* lines 313-329: the entry rebuilt from the response
RegeneratedEntry(item, data, payloadRole) ==
    [item EXCEPT
       !.steps = IF data.stepsPresent THEN data.steps ELSE <<>>,
       !.status = IF data.status = NoValue THEN "ready" ELSE data.status,
       !.lastGeneratedAt = data.lastGeneratedAt,
       !.error = NoValue,
       !.role = IF NormaliseRole(data.role) # NoValue
                THEN NormaliseRole(data.role) ELSE payloadRole]

RegenTargetSelected(item) == item.id = selectedId
\* line 315: item.event.id === selected.event.id, with the selected of the
\* render in which the handler was created
RegenTarget(item) == item.id = regenId

\* handleRegenerate after the fetch resolved with a success status
RegenerateOk(data) ==
    /\ regenerating
    /\ workplans' =
         [i \in DOMAIN workplans |->
            IF RegenTarget(workplans[i])
            THEN RegeneratedEntry(workplans[i], data, NormaliseRole(regenDraft))
            ELSE workplans[i]]
    /\ roleDrafts' =
         [id \in DOMAIN roleDrafts \cup {regenId} |->
            IF id = regenId THEN RegeneratedDraft(regenDraft, data)
            ELSE roleDrafts[id]]
    /\ regenerating' = FALSE
    /\ regenId' = NoValue
    /\ regenDraft' = NoValue
    /\ UNCHANGED <<loadingList, selectedId, wpError, cancelled, loadPc>>
    /\ UNCHANGED <<chatVars, routeVars>>

\* handleRegenerate when the fetch threw or returned a non-success status
RegenerateFail ==
    /\ regenerating
    /\ wpError' = "Unable to regenerate workplan right now. Try again later."
    /\ regenerating' = FALSE
    /\ regenId' = NoValue
    /\ regenDraft' = NoValue
    /\ UNCHANGED <<workplans, loadingList, selectedId, roleDrafts, cancelled,
                   loadPc>>
    /\ UNCHANGED <<chatVars, routeVars>>

\* ------------------------------------------------------------------------
\* Specifications

InitRest ==
    /\ messages = <<>>
    /\ input = ""
    /\ isLoading = FALSE
    /\ error = NoValue
    /\ now = 0
    /\ historyPc = "pending"
    /\ submitPc = "idle"
    /\ userMessage = NoMessage
    /\ toolCallHistory = <<>>
    /\ polls = [loading \in BOOLEAN |-> IF loading THEN 0 ELSE 1]
    /\ pollTimer = FALSE
    /\ retryTimers = 0
    /\ chatInFlight = 0
    /\ rpc = "idle"
    /\ reqFrom = "none"
    /\ reqHeader = NoHeader
    /\ reqBody = MalformedBody
    /\ isValid = FALSE
    /\ bodyMessage = NoValue
    /\ bodyUserId = NoValue
    /\ workflowResult = NoResult
    /\ store = <<>>
    /\ calls = <<>>
    /\ resp = NoResp
    /\ workplans = <<>>
    /\ loadingList = TRUE
    /\ regenerating = FALSE
    /\ selectedId = NoValue
    /\ wpError = NoValue
    /\ cancelled = FALSE
    /\ loadPc = "awaitFetch"
    /\ regenId = NoValue
    /\ regenDraft = NoValue

\* the panels as mounted: no draft yet
Init ==
    /\ InitRest
    /\ roleDrafts = <<>>

\* the form submitted while the conversation holds at most one message
SubmitEarly(cred) ==
    /\ Len(messages) <= 1
    /\ HandleSubmit(cred)

\* the chat panel talking to the chat endpoint
Next ==
    \/ Tick
    \/ \E value \in Inputs : SetInput(value)
    \/ \E incoming \in Batches : HandleRealtimeMessages(incoming)
    \/ \E result \in HistoryResults : LoadMessagesOk(result)
    \/ LoadMessagesFail
    \/ \E cred \in ClientCreds : SubmitEarly(cred)
    \/ ClientRouteStep
    \/ ChatResponse
    \/ ChatFetchThrows

Spec == Init /\ [][Next]_vars

\* a failed exchange of an earlier session, as the history returns it
FailedExchange ==
    <<[id |-> "h2", role |-> "user", content |-> "again", createdAt |-> 0,
       source |-> "telegram-user", metaError |-> FALSE],
      [id |-> "h3", role |-> "assistant", content |-> "oops", createdAt |-> 0,
       source |-> "micromanager", metaError |-> TRUE]>>

\* the chat panel with its status ticker: submit, retry and the
\* workflow-run poll
NextTicker ==
    \/ \E value \in Inputs : SetInput(value)
    \/ \E result \in HistoryResults \cup {FailedExchange} :
          LoadMessagesOk(result)
    \/ LoadMessagesFail
    \/ \E cred \in ClientCreds : HandleSubmit(cred)
    \/ RetryLastMessage
    \/ \E cred \in ClientCreds : RetryTimerFires(cred)
    \/ ClientRouteStep
    \/ ChatResponse
    \/ ChatFetchThrows
    \/ PollTick
    \/ \E loading \in BOOLEAN, data \in PollData :
          PollResolveOk(loading, data)
    \/ \E loading \in BOOLEAN : PollResolveFail(loading)

SpecTicker == Init /\ [][NextTicker]_vars

\* the chat panel talking to a chat endpoint that may count tokens
NextPanel ==
    \/ Tick
    \/ \E value \in Inputs : SetInput(value)
    \/ \E result \in HistoryResults : LoadMessagesOk(result)
    \/ LoadMessagesFail
    \/ \E cred \in ClientCreds : HandleSubmit(cred)
    \/ \E answer \in ChatAnswers : NetworkAnswers(answer)
    \/ ChatResponse
    \/ ChatFetchThrows
    \/ UsageResolves
    \/ UsageThrows
    \/ ProfileResolves
    \/ ProfileThrows

SpecPanel == Init /\ [][NextPanel]_vars

\* every awaited network call of handleSubmit resolves or rejects, and the
\* handler runs on once it has
AwaitedCallSettles ==
    \/ \E answer \in ChatAnswers : NetworkAnswers(answer)
    \/ ChatResponse
    \/ ChatFetchThrows
    \/ UsageResolves
    \/ UsageThrows
    \/ ProfileResolves
    \/ ProfileThrows

SpecPanelFair == SpecPanel /\ WF_vars(AwaitedCallSettles)

\* the chat endpoint called by any caller
DirectRouteStep ==
    /\ reqFrom = "direct"
    /\ RouteStep
    /\ UNCHANGED <<chatVars, wpVars>>

NextRoute ==
    \/ \E header \in Headers, body \in Bodies :
          DirectRequest(header, body) /\ UNCHANGED <<chatVars, wpVars>>
    \/ DirectRouteStep
    \/ DirectDone /\ UNCHANGED <<chatVars, wpVars>>

SpecRoute == Init /\ [][NextRoute]_vars

\* the workplan panel
NextWorkplan ==
    \/ \E list \in WorkplanLists : LoadOk(list)
    \/ LoadFail
    \/ Teardown
    \/ \E i \in 1..2 : SelectTab(i)
    \/ \E value \in RoleInputs : HandleRoleChange(value)
    \/ HandleRegenerate
    \/ \E data \in RegenData : RegenerateOk(data)
    \/ RegenerateFail

SpecWorkplan == Init /\ [][NextWorkplan]_vars

\* the draft updater of the load, applied to every mapping setRoleDrafts can
\* hand it
DraftTexts == {"", "pm", " x "}
DraftMaps  == UNION {[ids -> DraftTexts] : ids \in SUBSET {"e1", "e2"}}

InitSeed ==
    /\ InitRest
    /\ roleDrafts \in DraftMaps

NextSeed ==
    \/ \E list \in WorkplanLists : LoadOk(list)
    \/ LoadFail
    \/ Teardown

SpecSeed == InitSeed /\ [][NextSeed]_vars

\* ------------------------------------------------------------------------
\* Properties of the message merge (checked under Spec)

UniqueNonEmptyIds(list) ==
    /\ \A i \in DOMAIN list : Truthy(list[i].id)
    /\ \A i, j \in DOMAIN list : i # j => list[i].id # list[j].id

SortedByCreatedAt(list) ==
    \A i, j \in DOMAIN list : i < j => list[i].createdAt <= list[j].createdAt

\* every message of the batch carries a non-empty identity
AllIdentified(incoming) == \A i \in DOMAIN incoming : Truthy(incoming[i].id)

\* every message of the batch carries a non-empty identity present in list
AllKnown(incoming, list) ==
    \A i \in DOMAIN incoming :
        /\ Truthy(incoming[i].id)
        /\ \E j \in DOMAIN list : list[j].id = incoming[i].id

\* C1: whatever the current list and the batch, the list left by
\* handleRealtimeMessages has unique non-empty identities and is sorted by
\* ascending creation time.
C1_MergedListUniqueAndSorted ==
    [][\A incoming \in Batches :
          HandleRealtimeMessages(incoming) =>
             /\ UniqueNonEmptyIds(messages')
             /\ SortedByCreatedAt(messages')]_vars

\* C2 (as claimed): a batch whose messages all carry a known non-empty
\* identity leaves the list unchanged, and merging any batch twice gives the
\* same list as merging it once.
C2_RemergeIsNoOpAnyBatch ==
    [][\A incoming \in Batches :
          HandleRealtimeMessages(incoming) =>
             /\ AllKnown(incoming, messages) => messages' = messages
             /\ \A later \in now..MaxTime :
                   MergeRealtime(messages', incoming, later) = messages']_vars

\* C2 (amended): a batch whose messages all carry a known non-empty identity
\* leaves the list unchanged, and merging a batch whose messages all carry a
\* non-empty identity twice gives the same list as merging it once.
C2_RemergeIsNoOp ==
    \A incoming \in Batches :
        AllIdentified(incoming) =>
           LET once == MergeRealtime(messages, incoming, now)
           IN  /\ AllKnown(incoming, messages) => once = messages
               /\ \A later \in now..MaxTime :
                     MergeRealtime(once, incoming, later) = once

\* a realtime message with an identity is in the list next to another
\* message, so that a batch repeating it is a re-merge
C2_Witness ==
    /\ Len(messages) >= 2
    /\ \E i \in DOMAIN messages :
          messages[i].id = "a" /\ messages[i].source = "realtime-agent"

\* ------------------------------------------------------------------------
\* Properties of the chat endpoint (checked under SpecRoute)

Called(fn) == \E i \in DOMAIN calls : calls[i].fn = fn
CalledWith(fn, out) == \E i \in DOMAIN calls : calls[i] = Call(fn, out)

BothVerificationsFailed ==
    /\ \/ CalledWith("verifyTelegramServerToken", "false")
       \/ CalledWith("verifyTelegramServerToken", "throws")
    /\ CalledWith("jwtVerify", "throws")

Unauthenticated ==
    /\ rpc # "idle"
    /\ ~Truthy(TokenOf(reqHeader)) \/ BothVerificationsFailed

\* C3: a request without a token, or whose token fails both verifications,
\* ends with status 401 and never calls insertMessage or runWorkflow.
C3_UnverifiableTokenIs401 ==
    Unauthenticated =>
        /\ ~Called("insertMessage")
        /\ ~Called("runWorkflow")
        /\ rpc \in {"received", "done"}
        /\ rpc = "done" => resp.status = 401

C3_Witness ==
    /\ rpc = "done"
    /\ BothVerificationsFailed
    /\ reqBody.kind = "object" /\ reqBody.message = "hi" /\ reqBody.userId = "u1"
    /\ resp.status = 401

\* C4: an authenticated request whose body lacks a non-empty message or a
\* non-empty userId ends with status 400; nothing is persisted and the
\* workflow is not invoked for it.
C4_MissingFieldIs400 ==
    (/\ rpc = "done"
     /\ isValid
     /\ reqBody.kind = "object"
     /\ ~Truthy(reqBody.message) \/ ~Truthy(reqBody.userId))
    => /\ resp.status = 400
       /\ ~Called("insertMessage")
       /\ ~Called("runWorkflow")

C4_Witness ==
    /\ rpc = "done"
    /\ isValid
    /\ reqBody.kind = "object" /\ reqBody.message = "hi"
    /\ reqBody.userId = NoValue
    /\ resp.status = 400

PastAuthentication ==
    \/ rpc \in {"getUser", "insertUser", "runWorkflow", "insertAssistant"}
    \/ rpc = "done" /\ resp.status # 401

OneVerified ==
    \/ CalledWith("verifyTelegramServerToken", "true")
    \/ CalledWith("jwtVerify", "ok")

\* C5: the server verifier is tried first; the user-token verifier is tried
\* only after the server verifier returned false or threw; the request gets
\* past authentication exactly when one of the two succeeded.
C5_DualVerification ==
    /\ Len(calls) >= 1 => calls[1].fn = "verifyTelegramServerToken"
    /\ \A i \in DOMAIN calls :
          calls[i].fn = "jwtVerify" =>
             /\ i = 2
             /\ calls[1].out \in {"false", "throws"}
    /\ PastAuthentication => OneVerified
    /\ (OneVerified /\ rpc = "done") => resp.status # 401
    /\ (rpc = "done" /\ ~OneVerified) => resp.status = 401

C5_Witness ==
    /\ rpc = "getUser"
    /\ calls = <<Call("verifyTelegramServerToken", "throws"),
                 Call("jwtVerify", "ok")>>

InsertedCount ==
    Cardinality({i \in DOMAIN calls : calls[i] = Call("insertMessage", "ok")})

ThrewAfterAuthentication ==
    \/ isValid /\ rpc = "done" /\ reqBody.kind = "malformed"
    \/ CalledWith("getUserById", "throws")
    \/ CalledWith("insertMessage", "throws")
    \/ CalledWith("runWorkflow", "throws")
    \/ CalledWith("runWorkflow", "malformed")

WorkflowThrew ==
    CalledWith("runWorkflow", "throws") \/ CalledWith("runWorkflow", "malformed")

\* C7: an exception at any step after authentication gives the generic
\* status-500 response; what insertMessage persisted stays persisted; when
\* the workflow call throws, the request has persisted the user message and
\* no assistant message.
C7_ExceptionIs500NoRollback ==
    /\ []((rpc = "done" /\ ThrewAfterAuthentication) =>
             /\ resp.status = 500
             /\ resp.error = "Failed to process message"
             /\ resp.response = NoValue)
    /\ [](WorkflowThrew =>
             /\ InsertedCount = 1
             /\ Len(store) >= 1
             /\ store[Len(store)] = UserRecord)
    /\ [][/\ Len(store') >= Len(store)
          /\ SubSeq(store', 1, Len(store)) = store]_vars

C7_Witness ==
    /\ rpc = "done"
    /\ CalledWith("runWorkflow", "throws")
    /\ resp.status = 500
    /\ store = <<UserRecord>>

\* C8: in a successful request the response's error flag is the workflow's
\* error flag, the persisted assistant message carries error metadata
\* exactly when the flag is true, and the response text is the persisted
\* assistant content.
C8_ErrorFlagPropagates ==
    (rpc = "done" /\ resp.status = 200) =>
        /\ (resp.error = "true") <=> (workflowResult.error = "true")
        /\ resp.error \in {"true", "false"}
        /\ Len(store) >= 2
        /\ store[Len(store)].role = "assistant"
        /\ store[Len(store)].metaError <=> (workflowResult.error = "true")
        /\ resp.response = store[Len(store)].content
        /\ resp.response = workflowResult.output_text

C8_Witness ==
    /\ rpc = "done"
    /\ resp.status = 200
    /\ resp.error = "true"
    /\ store[Len(store)].metaError

\* ------------------------------------------------------------------------
\* End to end: the chat panel and the chat endpoint (checked under Spec)

\* C6: when an authenticated valid submit gets the workflow's output without
\* an error flag, the request has persisted exactly two messages, the user
\* message then the assistant message, and the panel's list shows the user
\* entry followed by the assistant entry.
C6_EndToEndSubmit ==
    [][(/\ ChatResponse
        /\ resp.status = 200
        /\ workflowResult.error # "true")
       => /\ InsertedCount = 2
          /\ Len(store) >= 2
          /\ store[Len(store) - 1] = UserRecord
          /\ store[Len(store)] = AssistantRecord
          /\ \E i, j \in DOMAIN messages' :
                /\ i < j
                /\ messages'[i].role = "user"
                /\ messages'[i].source = "telegram-user"
                /\ messages'[i].content = bodyMessage
                /\ messages'[j].role = "assistant"
                /\ messages'[j].source = "micromanager"
                /\ messages'[j].content = workflowResult.output_text]_vars

\* ------------------------------------------------------------------------
\* Properties of the workplan panel (checked under SpecWorkplan)

NoEntries(list) == \A i \in DOMAIN list : list[i].id = NoValue

\* C9: when the workplan fetch returns zero entries and the panel is not
\* torn down, the load leaves the mock set displayed and its first entry
\* selected.
C9_EmptyFetchShowsMocks ==
    [][\A list \in WorkplanLists :
          (LoadOk(list) /\ NoEntries(list) /\ ~cancelled) =>
             /\ workplans' = Mocks
             /\ selectedId' = Mocks[1].id
             /\ ~loadingList']_vars

C9_Witness ==
    /\ loadPc = "done"
    /\ ~cancelled
    /\ wpError = NoValue
    /\ workplans = Mocks
    /\ selectedId = "mock-1"

\* C10: on a failed fetch and on a fetch with zero results alike, the load
\* substitutes the mock set and leaves the error banner non-null, and the
\* displayed set is never empty once loading has finished.
C10_FallbackWarns ==
    /\ [][((LoadFail \/ \E list \in WorkplanLists :
                           LoadOk(list) /\ NoEntries(list)) /\ ~cancelled) =>
             /\ workplans' = Mocks
             /\ wpError' # NoValue]_vars
    /\ [](~loadingList => Len(workplans) > 0)

\* ------------------------------------------------------------------------
\* Properties of the draft seeding (checked under SpecSeed)

\* C11: whenever a non-empty fetched list is applied, every identity already
\* in the draft mapping keeps its draft, every fetched identity has a draft,
\* and each identity new to the mapping is seeded with the trimmed stored
\* role of its entry, or the empty string.
C11_SeedingKeepsDrafts ==
    [][\A list \in WorkplanLists :
          (LoadOk(list) /\ ~NoEntries(list) /\ ~cancelled) =>
             /\ \A id \in DOMAIN roleDrafts :
                   /\ id \in DOMAIN roleDrafts'
                   /\ roleDrafts'[id] = roleDrafts[id]
             /\ \A i \in DOMAIN list :
                   list[i].id # NoValue => list[i].id \in DOMAIN roleDrafts'
             /\ \A id \in DOMAIN roleDrafts' \ DOMAIN roleDrafts :
                   \E i \in DOMAIN list :
                      /\ list[i].id = id
                      /\ roleDrafts'[id] = SeedRole(list[i])]_vars

\* a draft "pm" kept although the fetched entry stores " dev ", next to a
\* draft seeded from the stored role
C11_Witness ==
    /\ loadPc = "done"
    /\ ~cancelled
    /\ workplans = <<Entry("e1", " dev "), Entry("e2", " dev ")>>
    /\ roleDrafts = ("e1" :> "pm") @@ ("e2" :> "dev")

\* ------------------------------------------------------------------------
\* Properties of the regeneration (checked under SpecWorkplan)

\* the draft of the regenerating entry as the mapping holds it
OwnDraft ==
    IF regenId \in DOMAIN roleDrafts THEN roleDrafts[regenId] ELSE ""

\* steps, status, lastGeneratedAt and error of the regenerated entries after
\* a step are the response's (an absent steps is the empty list, an absent
\* status is "ready")
EntryTakesServerValues(data) ==
    \A i \in DOMAIN workplans :
       workplans[i].id = regenId =>
          /\ workplans'[i].steps =
                (IF data.stepsPresent THEN data.steps ELSE <<>>)
          /\ workplans'[i].status =
                (IF data.status = NoValue THEN "ready" ELSE data.status)
          /\ workplans'[i].lastGeneratedAt = data.lastGeneratedAt
          /\ workplans'[i].error = NoValue

\* C12: when a regeneration succeeds, the regenerated entry's steps, status
\* and lastGeneratedAt become the server's values and its error is cleared,
\* and the entry's draft becomes its own trimmed text when that is not
\* empty, the role the server returned otherwise.
C12_RegenerationApplied ==
    [][\A data \in RegenData :
          RegenerateOk(data) =>
             /\ EntryTakesServerValues(data)
             /\ roleDrafts'[regenId] =
                   (IF Trim(OwnDraft) # "" THEN Trim(OwnDraft)
                    ELSE RoleOrEmpty(data))]_vars

\* ------------------------------------------------------------------------
\* Properties of the submit (C13 checked under SpecTicker, C14 under Spec)

\* a step in which the chat call of the running submit failed
ChatCallFailed == (ChatResponse /\ resp.status # 200) \/ ChatFetchThrows

\* a step that sends a chat request
RequestIssued == reqFrom # "client" /\ reqFrom' = "client"

\* C13: when the chat call returns a non-success status or throws, the step
\* adds no entry to the list (the submit has added its user entry and
\* nothing else), sets the error flag and issues no request; a chat request
\* is issued only by a submit of the form or by the timeout of a retry.
C13_FailedCallLeavesUserEntry ==
    /\ [][ChatCallFailed =>
             /\ messages' = messages
             /\ error' # NoValue
             /\ ~isLoading'
             /\ reqFrom' = "none"
             /\ rpc' = "idle"]_vars
    /\ [][RequestIssued =>
             /\ \E cred \in ClientCreds :
                   HandleSubmit(cred) \/ RetryTimerFires(cred)
             /\ messages' = Append(messages, userMessage')
             /\ userMessage'.role = "user"]_vars

\* a rejected submit: the list holds the user entry alone, the error is set
C13_Witness ==
    /\ ~isLoading
    /\ error # NoValue
    /\ Len(messages) = 1
    /\ messages[1].role = "user"
    /\ messages[1].source = "telegram-user"
    /\ reqFrom = "none"

\* C14: a submit appends the optimistic user entry while its chat request is
\* still unanswered; a success response appends the assistant entry at the
\* end of the list, behind the optimistic entry, with an identity that
\* differs from the optimistic entry's.
C14_OptimisticThenAssistant ==
    /\ [][\A cred \in ClientCreds :
             HandleSubmit(cred) =>
                /\ messages' = Append(messages, userMessage')
                /\ userMessage'.role = "user"
                /\ isLoading'
                /\ rpc' = "received"]_vars
    /\ [][(ChatResponse /\ resp.status = 200) =>
             /\ Len(messages') = Len(messages) + 1
             /\ SubSeq(messages', 1, Len(messages)) = messages
             /\ messages'[Len(messages')].role = "assistant"
             /\ messages'[Len(messages')].id # userMessage.id
             /\ \A i \in DOMAIN messages' :
                   messages'[i].id = userMessage.id => i < Len(messages')]_vars

\* the reply appended in the clock instant of the submit
C14_Witness ==
    /\ ~isLoading
    /\ Len(messages) = 2
    /\ messages[1].source = "telegram-user"
    /\ messages[2].source = "micromanager"
    /\ messages[1].createdAt = messages[2].createdAt
    /\ messages[1].id # messages[2].id

\* ------------------------------------------------------------------------
\* Properties of the message list (checked under Spec)

Contains(list, m) == \E i \in DOMAIN list : list[i] = m

\* C15: when the history fetch result is applied, every message that was in
\* the list is still in it, and so is every message of the history.
C15_HistoryKeepsMessages ==
    [][\A result \in HistoryResults :
          LoadMessagesOk(result) =>
             /\ \A i \in DOMAIN messages : Contains(messages', messages[i])
             /\ \A i \in DOMAIN result : Contains(messages', result[i])]_vars

\* C20: the message list is ordered by ascending creation time.
C20_ListOrdered == SortedByCreatedAt(messages)

\* ------------------------------------------------------------------------
\* Properties of the workflow-run poll (checked under SpecTicker)

SameElements(a, b) ==
    /\ Len(a) = Len(b)
    /\ {a[i] : i \in DOMAIN a} = {b[i] : i \in DOMAIN b}

ShowsPreviousRun ==
    \E i \in DOMAIN toolCallHistory :
       Contains(PreviousRun.toolCalls, toolCallHistory[i])

\* C16: when a poll result is applied, the run taken is the current one if a
\* chat request is in flight at that moment and the previous one otherwise;
\* while a request is in flight the history shows no tool call of the
\* previous run.
C16_PollShowsRunOfTheMoment ==
    /\ [][\A loading \in BOOLEAN, data \in PollData :
             PollResolveOk(loading, data) =>
                LET run == IF isLoading THEN data.current ELSE data.previous
                IN  IF run.hasToolCalls
                    THEN SameElements(toolCallHistory', run.toolCalls)
                    ELSE toolCallHistory' = toolCallHistory]_vars
    /\ [](isLoading => ~ShowsPreviousRun)

C18_PollingOnlyInFlight ==
    /\ [](pollTimer => isLoading)
    /\ [][(isLoading /\ ~isLoading') =>
             /\ ~pollTimer'
             /\ polls' = [polls EXCEPT ![FALSE] = @ + 1]]_vars
    /\ [][(~isLoading /\ ~isLoading') =>
             \A loading \in BOOLEAN : polls'[loading] <= polls[loading]]_vars

\* a submit has ended: no interval, the one fetch of the idle effect in flight
C18_Witness ==
    /\ ~isLoading
    /\ error # NoValue
    /\ ~pollTimer
    /\ polls[FALSE] = 1
    /\ polls[TRUE] = 0

\* ------------------------------------------------------------------------
\* Teardown (checked under SpecWorkplan)

\* C19: once the workplan panel is torn down, no step changes its state.
C19_NoUpdateAfterTeardown ==
    [][cancelled =>
          UNCHANGED <<workplans, loadingList, regenerating, selectedId,
                      wpError, roleDrafts>>]_vars

\* ------------------------------------------------------------------------
\* Properties of the submit guard (checked under SpecTicker)

\* C21: at most one chat request is unanswered; a request is sent, and an
\* optimistic entry appended, only by a submit made with non-blank input
\* while no request is in flight, and the timeout of a retry that fires
\* while a request is in flight or with blank input changes neither the list
\* nor the request.
C21_OneRequestInFlight ==
    /\ [](chatInFlight <= 1)
    /\ [][(chatInFlight' > chatInFlight \/ userMessage' \notin {userMessage, NoMessage})
            => /\ ~isLoading
               /\ Trim(input) # ""
               /\ chatInFlight = 0]_vars
    /\ [][\A cred \in ClientCreds :
             (RetryTimerFires(cred) /\ (isLoading \/ Trim(input) = "")) =>
                /\ messages' = messages
                /\ chatInFlight' = chatInFlight
                /\ UNCHANGED routeVars]_vars

\* a retry's timeout still pending while the request of a submit is in flight
C21_Witness ==
    /\ isLoading
    /\ chatInFlight = 1
    /\ retryTimers > 0

\* ------------------------------------------------------------------------
\* Properties of the end of a submit (C22 checked under SpecPanelFair, C23
\* under SpecPanel)

\* C22: when every awaited call settles, a set isLoading is cleared again,
\* whether the chat call succeeds, answers a non-success status or throws,
\* and whether the usage or profile follow-up succeeds or throws; no step
\* ends the handler with isLoading still set.
C22_LoadingEventuallyCleared ==
    /\ isLoading ~> ~isLoading
    /\ [][(submitPc # "idle" /\ submitPc' = "idle") => ~isLoading']_vars

\* the usage follow-up has thrown and isLoading is cleared
C22_Witness ==
    /\ ~isLoading
    /\ submitPc = "idle"
    /\ error # NoValue
    /\ Len(messages) = 2
    /\ messages[2].role = "assistant"
    /\ messages[2].source = "micromanager"

C24_OnlyTriggerEntryChanged ==
    /\ [][HandleRegenerate => regenId' = selectedId]_vars
    /\ [][\A data \in RegenData :
             RegenerateOk(data) =>
                /\ Len(workplans') = Len(workplans)
                /\ \A i \in DOMAIN workplans :
                      /\ workplans'[i].id = workplans[i].id
                      /\ workplans[i].id # regenId
                            => workplans'[i] = workplans[i]
                /\ DOMAIN roleDrafts' = DOMAIN roleDrafts \cup {regenId}
                /\ \A id \in DOMAIN roleDrafts \ {regenId} :
                      roleDrafts'[id] = roleDrafts[id]]_vars

\* e1 regenerated while e2 is the selected entry
C24_Witness ==
    /\ ~regenerating
    /\ Len(workplans) = 2
    /\ selectedId = "e2"
    /\ workplans[1].id = "e1"
    /\ workplans[1].steps = <<"fresh">>
    /\ workplans[2].id = "e2"
    /\ workplans[2].steps = <<"step">>

\* C25: when a regeneration succeeds, a non-empty text typed into the
\* regenerating entry's draft while the call was in flight is the entry's
\* draft afterwards, trimmed.
C25_InFlightEditKept ==
    [][\A data \in RegenData :
          (RegenerateOk(data) /\ Trim(OwnDraft) # "") =>
             roleDrafts'[regenId] = Trim(OwnDraft)]_vars

====
